---- MODULE Spec2Model ----
(***************************************************************************)
(* A model of the go-retry package: the policy builders, the built         *)
(* policies with their normalized view, and the Supply retry loop with its *)
(* collaborators (the operation, the sleeper, the context).                *)
(*                                                                         *)
(* Durations.  time.Duration is an int64 count of nanoseconds.  TLC's      *)
(* integers have 32 bits, so the model counts durations in ticks and       *)
(* scales the int64 range down to DurationBits bits: a second is Second    *)
(* ticks, 100ms is one tick, and a duration ranges over                    *)
(* MinDuration..MaxDuration.  The truncation of the float-to-integer       *)
(* conversion happens at the tick, and its overflow at MaxDuration.        *)
(*                                                                         *)
(* Coefficients.  float64 coefficients are fixed-point numbers with        *)
(* CoefScale parts to the unit (halves), which float64 represents and      *)
(* multiplies exactly for the durations of the model.                      *)
(***************************************************************************)
EXTENDS Integers, Sequences, FiniteSets, TLC

(* ------------------------------ bounds -------------------------------- *)

\* Width of a duration in bits (int64 in the source, scaled down).
DurationBits == 10
\* Most invocations of the operation in one run (caps an indefinite policy).
MaxCalls == 5

MaxDuration == 2^(DurationBits - 1) - 1
MinDuration == -(2^(DurationBits - 1))

(* ------------------------ constants of the source --------------------- *)

CoefScale == 2

\* The float64 that is not a number, coded as an integer no coefficient of the
\* model takes, and the float64 comparison <=, false whenever it is involved.
NaN == -1000
FloatLeq(x, y) == x # NaN /\ y # NaN /\ x <= y
Second == 10
defaultInitialInterval == Second
defaultMaxInterval == 30 * Second
defaultMaxAttempts == 3
defaultBackOffCoefficient == 2 * CoefScale
fixedDelayBackOffCoefficient == 1 * CoefScale
unlimitedMaxInterval == -1
undefinedMaxAttempts == -1

(* --------------------------- builder inputs --------------------------- *)

\* Interval overrides: zero, one tick (100ms), 30s.
IntervalInputs == {0, 1, 30 * Second}
\* Max-interval overrides: zero, one tick (100ms), 1s, 40s.
MaxIntervalInputs == {0, 1, Second, 40 * Second}
\* Max-attempts overrides: zero, one, and the most calls of a run.
MaxAttemptsInputs == {0, 1, MaxCalls}
\* Coefficient overrides in halves: 0, 0.5, 1.0, 1.5 (2.0 is the default).
CoefficientInputs == {0, 1, 2, 3}

\* What the operation returns as its value: the zero value of T and another.
Values == {0, 1}
OpErrors == {"E1", "E2"}

(* ------------------------------ builders ------------------------------ *)

\* The value a variable holds before any builder was selected.
NoBuilder ==
  [kind |-> "none", initialInterval |-> 0, maxInterval |-> 0,
   maxAttempts |-> 0, backOffCoefficient |-> 0]

\* Builder.BackOff(): the zero BackOffPolicyBuilder.
BackOff ==
  [kind |-> "BackOff", initialInterval |-> 0, maxInterval |-> 0,
   maxAttempts |-> 0, backOffCoefficient |-> 0]

\* Builder.FixedDelay(): the zero FixedDelayPolicyBuilder.  It has the fields
\* interval (kept in initialInterval) and maxAttempts; the backoff-only fields
\* of the record stay 0 and are never read.
FixedDelay ==
  [kind |-> "FixedDelay", initialInterval |-> 0, maxInterval |-> 0,
   maxAttempts |-> 0, backOffCoefficient |-> 0]

WithInitialInterval(b, initialInterval) ==
  [kind |-> b.kind, initialInterval |-> initialInterval,
   maxInterval |-> b.maxInterval, maxAttempts |-> b.maxAttempts,
   backOffCoefficient |-> b.backOffCoefficient]

WithMaxInterval(b, maxInterval) ==
  [kind |-> b.kind, initialInterval |-> b.initialInterval,
   maxInterval |-> maxInterval, maxAttempts |-> b.maxAttempts,
   backOffCoefficient |-> b.backOffCoefficient]

\* Fault variant: the call leaves maxInterval at the zero value.
WithMaxIntervalUnlimited_Zero(b) ==
  [kind |-> b.kind, initialInterval |-> b.initialInterval,
   maxInterval |-> 0, maxAttempts |-> b.maxAttempts,
   backOffCoefficient |-> b.backOffCoefficient]

WithMaxIntervalUnlimited(b) ==
  [kind |-> b.kind, initialInterval |-> b.initialInterval,
   maxInterval |-> unlimitedMaxInterval, maxAttempts |-> b.maxAttempts,
   backOffCoefficient |-> b.backOffCoefficient]

\* Fault variant: a maxAttempts already set is kept.
WithMaxAttempts_KeepFirst(b, maxAttempts) ==
  [kind |-> b.kind, initialInterval |-> b.initialInterval,
   maxInterval |-> b.maxInterval,
   maxAttempts |-> IF b.maxAttempts # 0 THEN b.maxAttempts ELSE maxAttempts,
   backOffCoefficient |-> b.backOffCoefficient]

WithMaxAttempts(b, maxAttempts) ==
  [kind |-> b.kind, initialInterval |-> b.initialInterval,
   maxInterval |-> b.maxInterval, maxAttempts |-> maxAttempts,
   backOffCoefficient |-> b.backOffCoefficient]

WithMaxAttemptsIndefinite(b) ==
  [kind |-> b.kind, initialInterval |-> b.initialInterval,
   maxInterval |-> b.maxInterval, maxAttempts |-> undefinedMaxAttempts,
   backOffCoefficient |-> b.backOffCoefficient]

WithBackOffCoefficient(b, backOffCoefficient) ==
  [kind |-> b.kind, initialInterval |-> b.initialInterval,
   maxInterval |-> b.maxInterval, maxAttempts |-> b.maxAttempts,
   backOffCoefficient |-> backOffCoefficient]

\* FixedDelayPolicyBuilder.WithInterval.
WithInterval(b, interval) ==
  [kind |-> b.kind, initialInterval |-> interval,
   maxInterval |-> b.maxInterval, maxAttempts |-> b.maxAttempts,
   backOffCoefficient |-> b.backOffCoefficient]

\* FixedDelayPolicyBuilder.WithMaxAttempts.
FixedDelay_WithMaxAttempts(b, maxAttempts) ==
  [kind |-> b.kind, initialInterval |-> b.initialInterval,
   maxInterval |-> b.maxInterval, maxAttempts |-> maxAttempts,
   backOffCoefficient |-> b.backOffCoefficient]

\* FixedDelayPolicyBuilder.WithMaxAttemptsIndefinite.
FixedDelay_WithMaxAttemptsIndefinite(b) ==
  [kind |-> b.kind, initialInterval |-> b.initialInterval,
   maxInterval |-> b.maxInterval, maxAttempts |-> undefinedMaxAttempts,
   backOffCoefficient |-> b.backOffCoefficient]

\* Fault variant: a negative initialInterval becomes the sentinel -1.
resolveInitialInterval_Sentinel(b) ==
  IF b.initialInterval < 0 THEN unlimitedMaxInterval
  ELSE IF b.initialInterval = 0 THEN defaultInitialInterval
  ELSE b.initialInterval

resolveInitialInterval(b) ==
  IF b.initialInterval <= 0 THEN defaultInitialInterval ELSE b.initialInterval

\* Fault variant: a zero maxInterval means unlimited.
resolveMaxInterval_ZeroUnlimited(b) ==
  IF b.maxInterval <= 0 THEN unlimitedMaxInterval ELSE b.maxInterval

resolveMaxInterval(b) ==
  IF b.maxInterval < 0 THEN unlimitedMaxInterval
  ELSE IF b.maxInterval = 0 THEN defaultMaxInterval
  ELSE b.maxInterval

\* Fault variant: a negative maxAttempts is kept as it is.
resolveMaxAttempts_KeepNegative(b) ==
  IF b.maxAttempts = 0 THEN defaultMaxAttempts ELSE b.maxAttempts

resolveMaxAttempts(b) ==
  IF b.maxAttempts < 0 THEN undefinedMaxAttempts
  ELSE IF b.maxAttempts = 0 THEN defaultMaxAttempts
  ELSE b.maxAttempts

\* Fault variant: a coefficient below 1.0 is replaced by the default.
resolveBackOffCoefficient_AtLeastOne(b) ==
  IF b.backOffCoefficient # NaN /\ b.backOffCoefficient < CoefScale
  THEN defaultBackOffCoefficient
  ELSE b.backOffCoefficient

resolveBackOffCoefficient(b) ==
  IF FloatLeq(b.backOffCoefficient, 0) THEN defaultBackOffCoefficient
  ELSE b.backOffCoefficient

\* FixedDelayPolicyBuilder.resolveInterval.
resolveInterval(b) ==
  IF b.initialInterval <= 0 THEN defaultInitialInterval ELSE b.initialInterval

\* FixedDelayPolicyBuilder.resolveMaxAttempts.
FixedDelay_resolveMaxAttempts(b) ==
  IF b.maxAttempts < 0 THEN undefinedMaxAttempts
  ELSE IF b.maxAttempts = 0 THEN defaultMaxAttempts
  ELSE b.maxAttempts

(* ------------------------------ policies ------------------------------ *)

\* The value a variable holds before a policy was built.
NoPolicy ==
  [kind |-> "none", initialInterval |-> 0, maxInterval |-> 0,
   maxAttempts |-> 0, backOffCoefficient |-> 0]

\* BackOffPolicyBuilder.Build.
BackOff_Build(b) ==
  [kind |-> "BackOff",
   initialInterval |-> resolveInitialInterval(b),
   maxInterval |-> resolveMaxInterval(b),
   maxAttempts |-> resolveMaxAttempts(b),
   backOffCoefficient |-> resolveBackOffCoefficient(b)]

\* FixedDelayPolicyBuilder.Build: a FixedDelayPolicy has the fields interval
\* (kept in initialInterval) and maxAttempts only.
FixedDelay_Build(b) ==
  [kind |-> "FixedDelay",
   initialInterval |-> resolveInterval(b),
   maxInterval |-> 0,
   maxAttempts |-> FixedDelay_resolveMaxAttempts(b),
   backOffCoefficient |-> 0]

\* BackOffPolicy.HasUnlimitedMaxInterval.
HasUnlimitedMaxInterval(p) == p.maxInterval = unlimitedMaxInterval

\* BackOffPolicy.IsAttemptingIndefinitely and
\* FixedDelayPolicy.IsAttemptingIndefinitely.
IsAttemptingIndefinitely(p) == p.maxAttempts = undefinedMaxAttempts

\* The policy interface: the normalized view Supply reads.
getInitialInterval(p) == p.initialInterval

\* Fault variant: the fixed-delay policy answers with a max-interval field of
\* its own, which nothing sets.
getMaxInterval_OwnField(p) == p.maxInterval

getMaxInterval(p) ==
  IF p.kind = "FixedDelay" THEN p.initialInterval ELSE p.maxInterval

getMaxAttempts(p) == p.maxAttempts

\* Fault variant: the fixed-delay policy answers with a coefficient field of
\* its own, which nothing sets.
getBackOffCoefficient_OwnField(p) == p.backOffCoefficient

getBackOffCoefficient(p) ==
  IF p.kind = "FixedDelay" THEN fixedDelayBackOffCoefficient
  ELSE p.backOffCoefficient

\* The public getters: each returns the field of its name.
InitialInterval(p) == p.initialInterval

MaxInterval(p) == p.maxInterval

\* BackOffPolicy.MaxAttempts and FixedDelayPolicy.MaxAttempts.
MaxAttempts(p) == p.maxAttempts

BackOffCoefficient(p) == p.backOffCoefficient

\* FixedDelayPolicy.Interval.
Interval(p) == p.initialInterval

(* ------------------------- interval arithmetic ------------------------ *)

\* Division truncating toward zero, as the float-to-integer conversion does.
Trunc(n, d) == IF n >= 0 THEN n \div d ELSE -((-n) \div d)

InRange(t) == MinDuration <= t /\ t <= MaxDuration

\* time.Duration(f) for the float f = n / CoefScale.  A value the integer type
\* cannot represent converts to an implementation-dependent result: the
\* "integer indefinite" value (the minimum) on amd64, the saturated value on
\* arm64.
Archs == {"amd64", "arm64"}

toDuration(n, arch) ==
  LET t == Trunc(n, CoefScale)
  IN  IF InRange(t) THEN t
      ELSE IF arch = "arm64" /\ t > 0 THEN MaxDuration
      ELSE MinDuration

\* A product with NaN is NaN, which no integer represents: it converts to the
\* minimum on amd64 and to 0 on arm64.
nextInterval(current, backOffCoefficient, arch) ==
  IF backOffCoefficient = NaN
  THEN IF arch = "arm64" THEN 0 ELSE MinDuration
  ELSE toDuration(current * backOffCoefficient, arch)

\* Fault variant: the next interval is not compared with maxInterval.
calcNextInterval_NoClamp(current, maxInterval, backOffCoefficient, arch) ==
  IF unlimitedMaxInterval = maxInterval
  THEN nextInterval(current, backOffCoefficient, arch)
  ELSE IF current = maxInterval THEN current
  ELSE nextInterval(current, backOffCoefficient, arch)

\* Fault variant: an interval equal to maxInterval is multiplied like any
\* other, and the product clamped.
calcNextInterval_NoPin(current, maxInterval, backOffCoefficient, arch) ==
  IF unlimitedMaxInterval = maxInterval
  THEN nextInterval(current, backOffCoefficient, arch)
  ELSE LET next == nextInterval(current, backOffCoefficient, arch)
       IN  IF next > maxInterval THEN maxInterval ELSE next

calcNextInterval(current, maxInterval, backOffCoefficient, arch) ==
  IF unlimitedMaxInterval = maxInterval
  THEN nextInterval(current, backOffCoefficient, arch)
  ELSE IF current = maxInterval THEN current
  ELSE LET next == nextInterval(current, backOffCoefficient, arch)
       IN  IF next > maxInterval THEN maxInterval ELSE next

\* Whether calcNextInterval converts a float outside the integer range.
Overflows(current, maxInterval, backOffCoefficient) ==
  /\ unlimitedMaxInterval = maxInterval \/ current # maxInterval
  /\ \/ backOffCoefficient = NaN
     \/ ~InRange(Trunc(current * backOffCoefficient, CoefScale))

(* ------------------------------- errors ------------------------------- *)

\* Values of Go's error interface that Supply returns: nil, an error of the
\* operation, or a DeadlineExceededError{Result, Err}.
NilError == [type |-> "nil", id |-> "nil", Result |-> 0, Err |-> "nil"]

OpError(e) == [type |-> "op", id |-> e, Result |-> 0, Err |-> "nil"]

DeadlineExceededError(Result, Err) ==
  [type |-> "DeadlineExceededError", id |-> "nil", Result |-> Result, Err |-> Err]

AsError(e) == IF e = "nil" THEN NilError ELSE OpError(e)

\* No return yet.
NoReturn == [val |-> 0, err |-> [type |-> "none", id |-> "nil", Result |-> 0, Err |-> "nil"]]

NoOutcome == [val |-> 0, err |-> "none"]

\* The instant the signal fired, when it has.
NotFired == [pc |-> "none", calls |-> 0]

(* -------------------------------- state ------------------------------- *)

\* What the caller did to a field of a builder: nothing, a With* call with a
\* value, or the call that asks for the sentinel (WithMaxIntervalUnlimited,
\* WithMaxAttemptsIndefinite).
NoOverride == [how |-> "none", v |-> 0]
Given(v) == [how |-> "value", v |-> v]
AsSentinel == [how |-> "sentinel", v |-> 0]

NoOverrides ==
  [initialInterval |-> NoOverride, maxInterval |-> NoOverride,
   maxAttempts |-> NoOverride, backOffCoefficient |-> NoOverride,
   replaced |-> {}]

\* No builder call so far.
NoOp ==
  [call |-> "none", field |-> "none", v |-> 0, recv |-> "none",
   target |-> "none", again |-> FALSE]

\* The locals and the history of a call of Supply that has not started.
IdleInvocation ==
  [pc |-> "idle", i |-> 0, res |-> 0, err |-> "nil", nextIntervalVar |-> 0,
   currInterval |-> 0, ret |-> NoReturn, ctxDone |-> FALSE,
   firedAt |-> NotFired, calls |-> 0, lastOut |-> NoOutcome,
   prevOut |-> NoOutcome, sleeps |-> <<>>, clock |-> 0, tryTimes |-> <<>>]

VARIABLES
  builder,          \* the builder value held by the caller
  policy,           \* the built policy (NoPolicy before Build)
  arch,             \* the build's float conversion, once an overflow showed it
  pc,               \* where the program is; a run of Supply ends in
                    \* "succeeded" (return res, nil), "cancelled" (the return
                    \* in the select) or "exhausted" (the return after the loop)
  i,                \* Supply: the attempt counter
  res,              \* Supply: var res T
  err,              \* Supply: var err error ("nil" or an error of the operation)
  nextIntervalVar,  \* Supply: nextInterval
  currInterval,     \* Supply: currInterval
  ret,              \* what Supply returned
  ctxDone,          \* whether ctx.Done() is closed
  firedAt,          \* history: where the run was when the signal fired
  calls,            \* history: invocations of the operation
  lastOut,          \* history: what the most recent invocation returned
  prevOut,          \* history: what the invocation before it returned
  sleeps,           \* history: the durations passed to Sleeper.Sleep
  clock,            \* the sleeper's clock
  tryTimes,         \* history: the clock at each invocation
  other,            \* a second builder value the caller holds
  ops,              \* history: the number of calls on the two builder values
  lastOp,           \* history: the most recent builder call
  ovr,              \* history: the last override given for each field
  inv2              \* the locals and history of a second call of Supply

cvars == <<other, ops, lastOp, ovr, inv2>>
bvars == <<builder, policy, other, ops, lastOp, ovr, inv2>>
svars == <<i, res, err, nextIntervalVar, currInterval, ret>>
hvars == <<calls, lastOut, prevOut, sleeps, clock, tryTimes>>
vars == <<builder, policy, arch, pc, i, res, err, nextIntervalVar, currInterval,
          ret, ctxDone, firedAt, calls, lastOut, prevOut, sleeps, clock,
          tryTimes, other, ops, lastOp, ovr, inv2>>

Init ==
  /\ builder = NoBuilder
  /\ policy = NoPolicy
  /\ arch = "unobserved"
  /\ pc = "building"
  /\ i = 0
  /\ res = 0
  /\ err = "nil"
  /\ nextIntervalVar = 0
  /\ currInterval = 0
  /\ ret = NoReturn
  /\ ctxDone = FALSE
  /\ firedAt = NotFired
  /\ calls = 0
  /\ lastOut = NoOutcome
  /\ prevOut = NoOutcome
  /\ sleeps = <<>>
  /\ clock = 0
  /\ tryTimes = <<>>
  /\ other = NoBuilder
  /\ ops = 0
  /\ lastOp = NoOp
  /\ ovr = NoOverrides
  /\ inv2 = IdleInvocation

(* --------------------------- builder actions -------------------------- *)

SetBuilder(b) ==
  /\ pc = "building"
  /\ builder' = b
  /\ UNCHANGED <<policy, arch, pc, svars, ctxDone, firedAt, hvars, cvars>>

SelectBackOff == builder = NoBuilder /\ SetBuilder(BackOff)

SelectFixedDelay == builder = NoBuilder /\ SetBuilder(FixedDelay)

SetInitialInterval(d) ==
  builder.kind = "BackOff" /\ SetBuilder(WithInitialInterval(builder, d))

SetMaxInterval(d) ==
  builder.kind = "BackOff" /\ SetBuilder(WithMaxInterval(builder, d))

SetMaxIntervalUnlimited ==
  builder.kind = "BackOff" /\ SetBuilder(WithMaxIntervalUnlimited(builder))

SetMaxAttempts(n) ==
  builder.kind = "BackOff" /\ SetBuilder(WithMaxAttempts(builder, n))

SetMaxAttemptsIndefinite ==
  builder.kind = "BackOff" /\ SetBuilder(WithMaxAttemptsIndefinite(builder))

SetBackOffCoefficient(c) ==
  builder.kind = "BackOff" /\ SetBuilder(WithBackOffCoefficient(builder, c))

SetInterval(d) ==
  builder.kind = "FixedDelay" /\ SetBuilder(WithInterval(builder, d))

FixedDelay_SetMaxAttempts(n) ==
  builder.kind = "FixedDelay" /\ SetBuilder(FixedDelay_WithMaxAttempts(builder, n))

FixedDelay_SetMaxAttemptsIndefinite ==
  builder.kind = "FixedDelay"
  /\ SetBuilder(FixedDelay_WithMaxAttemptsIndefinite(builder))

Build ==
  /\ pc = "building"
  /\ builder.kind # "none"
  /\ policy' = IF builder.kind = "BackOff" THEN BackOff_Build(builder)
               ELSE FixedDelay_Build(builder)
  /\ pc' = "idle"
  /\ UNCHANGED <<builder, arch, svars, ctxDone, firedAt, hvars, cvars>>

(* ------------------------------- Supply ------------------------------- *)

\* Fault variant: the loop runs while i <= maxAttempts.
loopCond_Inclusive(n, p) == n = 0 \/ n <= getMaxAttempts(p)

\* The condition of Supply's for loop.
loopCond(n, p) == n = 0 \/ n < getMaxAttempts(p)

\* Fault variant: the counter is advanced under every policy.
nextAttempt_Always(n, p) == n + 1

\* Fault variant: the counter is never advanced.
nextAttempt_Never(n, p) == n

\* The counter after a failed attempt: "if p.getMaxAttempts() > 0 { i++ }".
nextAttempt(n, p) == IF getMaxAttempts(p) > 0 THEN n + 1 ELSE n

\* Fault variant: the DeadlineExceededError is built without its Result.
DeadlineReturn_NoResult(r, e) == [val |-> r, err |-> DeadlineExceededError(0, e)]

\* Fault variant: on cancellation the last error is returned as it is.
DeadlineReturn_Plain(r, e) == [val |-> r, err |-> AsError(e)]

\* "return res, DeadlineExceededError[T]{Result: res, Err: err}".
DeadlineReturn(r, e) == [val |-> r, err |-> DeadlineExceededError(r, e)]

\* Fault variant: the result of the successful call is lost (a shadowed res).
SuccessReturn_ZeroValue(r) == [val |-> 0, err |-> NilError]

\* "return res, nil".
SuccessReturn(r) == [val |-> r, err |-> NilError]

\* Fault variant: the last error is wrapped in a DeadlineExceededError.
ExhaustedReturn_Wrapped(r, e) == [val |-> r, err |-> DeadlineExceededError(r, e)]

\* "return res, err" after the loop.
ExhaustedReturn(r, e) == [val |-> r, err |-> AsError(e)]

\* Fault variant: the sleep lasts the interval just computed.
sleepArg_Next(curr, next) == next

\* The duration handed to the sleeper: currInterval, the interval before the
\* next one is computed.
sleepArg(curr, next) == curr

\* Sleeper.Sleep on the test clock: a non-positive duration returns at once.
Slept(d) == IF d > 0 THEN d ELSE 0

\* The architectures the run may turn out to be built for, given what an
\* earlier overflow showed.
ArchsNow(overflows) ==
  IF arch # "unobserved" THEN {arch}
  ELSE IF overflows THEN Archs
  ELSE {"unobserved"}

\* Fault variant: the first iteration starts without a poll of the context.
SupplyCall_SkipsFirstPoll ==
  /\ pc = "idle"
  /\ res' = 0
  /\ err' = "nil"
  /\ nextIntervalVar' = getInitialInterval(policy)
  /\ i' = 0
  /\ pc' = "invoke"
  /\ UNCHANGED <<bvars, arch, currInterval, ret, ctxDone, firedAt, hvars>>

\* Supply is called with the built policy: its declarations before the loop.
SupplyCall ==
  /\ pc = "idle"
  /\ res' = 0
  /\ err' = "nil"
  /\ nextIntervalVar' = getInitialInterval(policy)
  /\ i' = 0
  /\ pc' = "poll"
  /\ UNCHANGED <<bvars, arch, currInterval, ret, ctxDone, firedAt, hvars>>

\* Fault variant: the case of ctx.Done() lacks its return.
SupplyPoll_FallsThrough ==
  /\ pc = "poll"
  /\ pc' = "invoke"
  /\ ret' = IF ctxDone THEN DeadlineReturn(res, err) ELSE ret
  /\ UNCHANGED <<bvars, arch, i, res, err, nextIntervalVar, currInterval,
                 ctxDone, firedAt, hvars>>

\* Fault variant: the loop has no select on ctx.Done().
SupplyPoll_Blind ==
  /\ pc = "poll"
  /\ pc' = "invoke"
  /\ UNCHANGED <<bvars, arch, svars, ctxDone, firedAt, hvars>>

\* The select at the top of an iteration.
SupplyPoll ==
  /\ pc = "poll"
  /\ IF ctxDone
     THEN pc' = "cancelled" /\ ret' = DeadlineReturn(res, err)
     ELSE pc' = "invoke" /\ ret' = ret
  /\ UNCHANGED <<bvars, arch, i, res, err, nextIntervalVar, currInterval,
                 ctxDone, firedAt, hvars>>

\* supply() is called.
SupplyInvoke ==
  /\ pc = "invoke"
  /\ calls < MaxCalls
  /\ calls' = calls + 1
  /\ tryTimes' = Append(tryTimes, clock)
  /\ pc' = "supply"
  /\ UNCHANGED <<bvars, arch, svars, ctxDone, firedAt, lastOut, prevOut, sleeps,
                 clock>>

\* Fault variant: a fired signal is looked at when the call returns, and
\* wins over a nil error.
SupplyReturn_ChecksContext(v, e) ==
  /\ pc = "supply"
  /\ res' = v
  /\ err' = e
  /\ lastOut' = [val |-> v, err |-> e]
  /\ prevOut' = lastOut
  /\ IF ctxDone
     THEN pc' = "cancelled" /\ ret' = DeadlineReturn(v, e)
     ELSE IF e = "nil"
     THEN pc' = "succeeded" /\ ret' = SuccessReturn(v)
     ELSE pc' = "backoff" /\ ret' = ret
  /\ UNCHANGED <<bvars, arch, i, nextIntervalVar, currInterval, ctxDone,
                 firedAt, calls, sleeps, clock, tryTimes>>

\* supply() returns (v, e): "if res, err = supply(); err == nil".
SupplyReturn(v, e) ==
  /\ pc = "supply"
  /\ res' = v
  /\ err' = e
  /\ lastOut' = [val |-> v, err |-> e]
  /\ prevOut' = lastOut
  /\ IF e = "nil"
     THEN pc' = "succeeded" /\ ret' = SuccessReturn(v)
     ELSE pc' = "backoff" /\ ret' = ret
  /\ UNCHANGED <<bvars, arch, i, nextIntervalVar, currInterval, ctxDone,
                 firedAt, calls, sleeps, clock, tryTimes>>

\* Fault variant: the context is polled again before the sleep.
SupplySleep_Selects ==
  /\ pc = "backoff"
  /\ IF ctxDone
     THEN /\ pc' = "cancelled"
          /\ ret' = DeadlineReturn(res, err)
          /\ UNCHANGED <<arch, nextIntervalVar, currInterval, sleeps>>
     ELSE /\ pc' = "sleep"
          /\ ret' = ret
          /\ \E a \in ArchsNow(Overflows(nextIntervalVar,
                                         getMaxInterval(policy),
                                         getBackOffCoefficient(policy))) :
               /\ arch' = a
               /\ nextIntervalVar' =
                    calcNextInterval(nextIntervalVar, getMaxInterval(policy),
                                     getBackOffCoefficient(policy), a)
               /\ currInterval' = nextIntervalVar
               /\ sleeps' = Append(sleeps, nextIntervalVar)
  /\ UNCHANGED <<bvars, i, res, err, ctxDone, firedAt, calls, lastOut,
                 prevOut, clock, tryTimes>>

\* Fault variant: no sleep after the last permitted attempt.
SupplySleep_UnlessLast ==
  /\ pc = "backoff"
  /\ IF loopCond(nextAttempt(i, policy), policy)
     THEN /\ pc' = "sleep"
          /\ ret' = ret
          /\ i' = i
          /\ \E a \in ArchsNow(Overflows(nextIntervalVar,
                                         getMaxInterval(policy),
                                         getBackOffCoefficient(policy))) :
               /\ arch' = a
               /\ nextIntervalVar' =
                    calcNextInterval(nextIntervalVar, getMaxInterval(policy),
                                     getBackOffCoefficient(policy), a)
               /\ currInterval' = nextIntervalVar
               /\ sleeps' = Append(sleeps, nextIntervalVar)
     ELSE /\ pc' = "exhausted"
          /\ ret' = ExhaustedReturn(res, err)
          /\ i' = nextAttempt(i, policy)
          /\ UNCHANGED <<arch, nextIntervalVar, currInterval, sleeps>>
  /\ UNCHANGED <<bvars, res, err, ctxDone, firedAt, calls, lastOut,
                 prevOut, clock, tryTimes>>

\* Fault variant: the policy keeps the running interval in its own field.
SupplySleep_StoresInterval ==
  /\ pc = "backoff"
  /\ \E a \in ArchsNow(Overflows(nextIntervalVar, getMaxInterval(policy),
                                 getBackOffCoefficient(policy))) :
       /\ arch' = a
       /\ nextIntervalVar' =
            calcNextInterval(nextIntervalVar, getMaxInterval(policy),
                             getBackOffCoefficient(policy), a)
       /\ currInterval' = nextIntervalVar
       /\ sleeps' = Append(sleeps, nextIntervalVar)
  /\ policy' = [policy EXCEPT !.initialInterval = nextIntervalVar']
  /\ pc' = "sleep"
  /\ UNCHANGED <<builder, cvars, i, res, err, ret, ctxDone, firedAt, calls,
                 lastOut, prevOut, clock, tryTimes>>

\* After a failed attempt: currInterval and nextInterval are set, and
\* slp.Sleep(currInterval) is called.
SupplySleep ==
  /\ pc = "backoff"
  /\ \E a \in ArchsNow(Overflows(nextIntervalVar, getMaxInterval(policy),
                                 getBackOffCoefficient(policy))) :
       /\ arch' = a
       /\ nextIntervalVar' =
            calcNextInterval(nextIntervalVar, getMaxInterval(policy),
                             getBackOffCoefficient(policy), a)
       /\ currInterval' = nextIntervalVar
       /\ sleeps' = Append(sleeps, sleepArg(nextIntervalVar, nextIntervalVar'))
  /\ pc' = "sleep"
  /\ UNCHANGED <<bvars, i, res, err, ret, ctxDone, firedAt, calls, lastOut,
                 prevOut, clock, tryTimes>>

\* Sleep returns; the counter is advanced and the loop condition evaluated.
SupplyWake ==
  /\ pc = "sleep"
  /\ clock' = clock + Slept(sleeps[Len(sleeps)])
  /\ i' = nextAttempt(i, policy)
  /\ IF loopCond(i', policy)
     THEN pc' = "poll" /\ ret' = ret
     ELSE pc' = "exhausted" /\ ret' = ExhaustedReturn(res, err)
  /\ UNCHANGED <<bvars, arch, res, err, nextIntervalVar, currInterval, ctxDone,
                 firedAt, calls, lastOut, prevOut, sleeps, tryTimes>>

\* The context is cancelled, or its deadline passes, at any moment from the
\* call of Supply until its return.
CtxCancel ==
  /\ pc \in {"idle", "poll", "invoke", "supply", "backoff", "sleep"}
  /\ ~ctxDone
  /\ ctxDone' = TRUE
  /\ firedAt' = [pc |-> pc, calls |-> calls]
  /\ UNCHANGED <<bvars, arch, pc, svars, hvars>>

(* ---------------------------- specification --------------------------- *)

BuilderStep ==
  \/ SelectBackOff
  \/ SelectFixedDelay
  \/ \E d \in IntervalInputs : SetInitialInterval(d)
  \/ \E d \in MaxIntervalInputs : SetMaxInterval(d)
  \/ SetMaxIntervalUnlimited
  \/ \E n \in MaxAttemptsInputs : SetMaxAttempts(n)
  \/ SetMaxAttemptsIndefinite
  \/ \E c \in CoefficientInputs : SetBackOffCoefficient(c)
  \/ \E d \in IntervalInputs : SetInterval(d)
  \/ \E n \in MaxAttemptsInputs : FixedDelay_SetMaxAttempts(n)
  \/ FixedDelay_SetMaxAttemptsIndefinite
  \/ Build

SupplyStep ==
  \/ SupplyCall
  \/ SupplyPoll
  \/ SupplyInvoke
  \/ \E v \in Values, e \in OpErrors \cup {"nil"} : SupplyReturn(v, e)
  \/ SupplySleep
  \/ SupplyWake

Next == BuilderStep \/ SupplyStep \/ CtxCancel

Spec == Init /\ [][Next]_vars

\* The scheduling of a run: Supply is one thread of control whose every call
\* (the operation, the sleeper) returns, so a Supply step that stays possible is
\* taken.  The builder and the context are under no obligation.
FairSpec == Spec /\ WF_vars(SupplyStep)

(* --------------------------------- Run -------------------------------- *)

\* runFuncToSupplyFunc: the operation of Run, which returns an error only,
\* seen as one that returns (nil, run()); nil is the zero value of any.
runFuncToSupplyFunc(e) == [val |-> 0, err |-> e]

\* Fault variant: the error of Supply is dropped.
returnErrOnly_Nil(v, e) == NilError

\* returnErrOnly: the value is dropped, the error returned.
returnErrOnly(v, e) == e

\* What Run returns once the Supply it called has returned.
RunResult == returnErrOnly(ret.val, ret.err)

\* Run is called: it calls Supply with the wrapped operation.
RunCall == SupplyCall

\* The wrapped operation returns.
RunReturn(e) ==
  LET out == runFuncToSupplyFunc(e)
  IN  SupplyReturn(out.val, out.err)

RunStep ==
  \/ RunCall
  \/ SupplyPoll
  \/ SupplyInvoke
  \/ \E e \in OpErrors \cup {"nil"} : RunReturn(e)
  \/ SupplySleep
  \/ SupplyWake

RunNext == BuilderStep \/ RunStep \/ CtxCancel

RunSpec == Init /\ [][RunNext]_vars

(* --------------------- two calls sharing a policy --------------------- *)

\* Two calls of Supply run concurrently with the same policy value, each
\* with its own locals, operation, context and sleeper.  The call that takes
\* the next step is the one whose locals are in the variables; the other
\* one's are in inv2, and a switch of goroutine exchanges them.
Invocation ==
  [pc |-> pc, i |-> i, res |-> res, err |-> err,
   nextIntervalVar |-> nextIntervalVar, currInterval |-> currInterval,
   ret |-> ret, ctxDone |-> ctxDone, firedAt |-> firedAt, calls |-> calls,
   lastOut |-> lastOut, prevOut |-> prevOut, sleeps |-> sleeps,
   clock |-> clock, tryTimes |-> tryTimes]

Switch ==
  /\ pc # "building"
  /\ inv2 # Invocation
  /\ inv2' = Invocation
  /\ pc' = inv2.pc
  /\ i' = inv2.i
  /\ res' = inv2.res
  /\ err' = inv2.err
  /\ nextIntervalVar' = inv2.nextIntervalVar
  /\ currInterval' = inv2.currInterval
  /\ ret' = inv2.ret
  /\ ctxDone' = inv2.ctxDone
  /\ firedAt' = inv2.firedAt
  /\ calls' = inv2.calls
  /\ lastOut' = inv2.lastOut
  /\ prevOut' = inv2.prevOut
  /\ sleeps' = inv2.sleeps
  /\ clock' = inv2.clock
  /\ tryTimes' = inv2.tryTimes
  /\ UNCHANGED <<builder, policy, arch, other, ops, lastOp, ovr>>

ConcMaxAttempts == {1, 2}
ConcValues == {1}
ConcErrors == {"E1"}

ConcNext ==
  \/ SelectBackOff
  \/ SelectFixedDelay
  \/ \E n \in ConcMaxAttempts : SetMaxAttempts(n)
  \/ \E n \in ConcMaxAttempts : FixedDelay_SetMaxAttempts(n)
  \/ Build
  \/ SupplyCall
  \/ SupplyPoll
  \/ SupplyInvoke
  \/ \E v \in ConcValues, e \in ConcErrors \cup {"nil"} : SupplyReturn(v, e)
  \/ SupplySleep
  \/ SupplyWake
  \/ CtxCancel
  \/ Switch

ConcSpec == Init /\ [][ConcNext]_vars

(* ------------------- the builder over every kind of input ------------- *)

\* The values a caller passes to the builder here: negative ones of two
\* sizes, zero, and positive ones on both sides of the defaults.
WideIntervals == {-5, -1, 0, 1, 2 * Second}
WideMaxAttempts == {-5, -1, 0, 1, 4}
WideCoefficients == {-2, -1, 0, 1, 5, NaN}

\* A With* call of the fluent chain, the override recorded.
Override(b, o) ==
  /\ pc = "building"
  /\ builder' = b
  /\ ovr' = [o EXCEPT !.replaced =
               @ \cup {f \in {"initialInterval", "maxInterval", "maxAttempts",
                               "backOffCoefficient"} :
                         ovr[f].how # "none" /\ o[f] # ovr[f]}]
  /\ UNCHANGED <<policy, arch, pc, svars, ctxDone, firedAt, hvars, other,
                 ops, lastOp, inv2>>

OverrideInitialInterval(d) ==
  /\ builder.kind = "BackOff"
  /\ Override(WithInitialInterval(builder, d),
              [ovr EXCEPT !.initialInterval = Given(d)])

OverrideMaxInterval(d) ==
  /\ builder.kind = "BackOff"
  /\ Override(WithMaxInterval(builder, d),
              [ovr EXCEPT !.maxInterval = Given(d)])

OverrideMaxIntervalUnlimited ==
  /\ builder.kind = "BackOff"
  /\ Override(WithMaxIntervalUnlimited(builder),
              [ovr EXCEPT !.maxInterval = AsSentinel])

OverrideMaxAttempts(n) ==
  /\ builder.kind = "BackOff"
  /\ Override(WithMaxAttempts(builder, n),
              [ovr EXCEPT !.maxAttempts = Given(n)])

OverrideMaxAttemptsIndefinite ==
  /\ builder.kind = "BackOff"
  /\ Override(WithMaxAttemptsIndefinite(builder),
              [ovr EXCEPT !.maxAttempts = AsSentinel])

OverrideBackOffCoefficient(c) ==
  /\ builder.kind = "BackOff"
  /\ Override(WithBackOffCoefficient(builder, c),
              [ovr EXCEPT !.backOffCoefficient = Given(c)])

OverrideInterval(d) ==
  /\ builder.kind = "FixedDelay"
  /\ Override(WithInterval(builder, d),
              [ovr EXCEPT !.initialInterval = Given(d)])

FixedDelay_OverrideMaxAttempts(n) ==
  /\ builder.kind = "FixedDelay"
  /\ Override(FixedDelay_WithMaxAttempts(builder, n),
              [ovr EXCEPT !.maxAttempts = Given(n)])

FixedDelay_OverrideMaxAttemptsIndefinite ==
  /\ builder.kind = "FixedDelay"
  /\ Override(FixedDelay_WithMaxAttemptsIndefinite(builder),
              [ovr EXCEPT !.maxAttempts = AsSentinel])

BuilderNext ==
  \/ SelectBackOff
  \/ SelectFixedDelay
  \/ \E d \in WideIntervals : OverrideInitialInterval(d)
  \/ \E d \in WideIntervals : OverrideMaxInterval(d)
  \/ OverrideMaxIntervalUnlimited
  \/ \E n \in WideMaxAttempts : OverrideMaxAttempts(n)
  \/ OverrideMaxAttemptsIndefinite
  \/ \E c \in WideCoefficients : OverrideBackOffCoefficient(c)
  \/ \E d \in WideIntervals : OverrideInterval(d)
  \/ \E n \in WideMaxAttempts : FixedDelay_OverrideMaxAttempts(n)
  \/ FixedDelay_OverrideMaxAttemptsIndefinite
  \/ Build

\* A fluent chain of overrides ended by Build.
BuilderSpec == Init /\ [][BuilderNext]_vars

(* --------------------- two builder values, and Build ------------------ *)

\* The caller holds two builder values, builder and other.  A With* call has
\* one of them as its receiver and its result is kept in one of them; Build
\* has one of them as its receiver.  MaxOps bounds the number of calls.
MaxOps == 4
Holders == {"builder", "other"}
ShareIntervals == {2}
ShareMaxAttempts == {2}
ShareCoefficients == {3}

Held(r) == IF r = "builder" THEN builder ELSE other

\* Build of either builder type.
BuildPolicy(b) ==
  IF b.kind = "BackOff" THEN BackOff_Build(b) ELSE FixedDelay_Build(b)

\* Fault variant: With* has a pointer receiver and writes the field in place.
AfterWith_InPlace(b, result) == result

\* The receiver after a With* call: the methods have value receivers and
\* return a new struct, so the caller's value is as it was.
AfterWith(b, result) == b

\* Fault variant: Build hands its state over and leaves a zero builder.
AfterBuild_Reset(b) == IF b.kind = "BackOff" THEN BackOff ELSE FixedDelay

\* The receiver after Build: a value receiver, only read.
AfterBuild(b) == b

\* target := receiver.With<field>(v), result being the value returned.
ShareWith(r, t, field, v, result) ==
  /\ pc = "building"
  /\ ops < MaxOps
  /\ ops' = ops + 1
  /\ builder' = IF t = "builder" THEN result
                ELSE IF r = "builder" THEN AfterWith(builder, result)
                ELSE builder
  /\ other' = IF t = "other" THEN result
              ELSE IF r = "other" THEN AfterWith(other, result)
              ELSE other
  /\ lastOp' = [call |-> "With", field |-> field, v |-> v, recv |-> r,
                target |-> t, again |-> FALSE]
  /\ UNCHANGED <<policy, arch, pc, svars, ctxDone, firedAt, hvars, ovr, inv2>>

ShareWithInitialInterval(r, t, d) ==
  /\ Held(r).kind = "BackOff"
  /\ ShareWith(r, t, "initialInterval", d, WithInitialInterval(Held(r), d))

ShareWithMaxInterval(r, t, d) ==
  /\ Held(r).kind = "BackOff"
  /\ ShareWith(r, t, "maxInterval", d, WithMaxInterval(Held(r), d))

ShareWithMaxIntervalUnlimited(r, t) ==
  /\ Held(r).kind = "BackOff"
  /\ ShareWith(r, t, "maxInterval", unlimitedMaxInterval,
               WithMaxIntervalUnlimited(Held(r)))

ShareWithMaxAttempts(r, t, n) ==
  /\ Held(r).kind = "BackOff"
  /\ ShareWith(r, t, "maxAttempts", n, WithMaxAttempts(Held(r), n))

ShareWithMaxAttemptsIndefinite(r, t) ==
  /\ Held(r).kind = "BackOff"
  /\ ShareWith(r, t, "maxAttempts", undefinedMaxAttempts,
               WithMaxAttemptsIndefinite(Held(r)))

ShareWithBackOffCoefficient(r, t, c) ==
  /\ Held(r).kind = "BackOff"
  /\ ShareWith(r, t, "backOffCoefficient", c,
               WithBackOffCoefficient(Held(r), c))

ShareWithInterval(r, t, d) ==
  /\ Held(r).kind = "FixedDelay"
  /\ ShareWith(r, t, "initialInterval", d, WithInterval(Held(r), d))

FixedDelay_ShareWithMaxAttempts(r, t, n) ==
  /\ Held(r).kind = "FixedDelay"
  /\ ShareWith(r, t, "maxAttempts", n, FixedDelay_WithMaxAttempts(Held(r), n))

FixedDelay_ShareWithMaxAttemptsIndefinite(r, t) ==
  /\ Held(r).kind = "FixedDelay"
  /\ ShareWith(r, t, "maxAttempts", undefinedMaxAttempts,
               FixedDelay_WithMaxAttemptsIndefinite(Held(r)))

\* policy := receiver.Build(); the builder can be built again.
ShareBuild(r) ==
  /\ pc = "building"
  /\ Held(r).kind # "none"
  /\ ops < MaxOps
  /\ ops' = ops + 1
  /\ policy' = BuildPolicy(Held(r))
  /\ builder' = IF r = "builder" THEN AfterBuild(builder) ELSE builder
  /\ other' = IF r = "other" THEN AfterBuild(other) ELSE other
  /\ lastOp' = [call |-> "Build", field |-> "none", v |-> 0, recv |-> r,
                target |-> "policy",
                again |-> lastOp.call = "Build" /\ lastOp.recv = r]
  /\ UNCHANGED <<arch, pc, svars, ctxDone, firedAt, hvars, ovr, inv2>>

ShareNext ==
  \/ SelectBackOff
  \/ SelectFixedDelay
  \/ \E r, t \in Holders :
       \/ \E d \in ShareIntervals : ShareWithInitialInterval(r, t, d)
       \/ \E d \in ShareIntervals : ShareWithMaxInterval(r, t, d)
       \/ ShareWithMaxIntervalUnlimited(r, t)
       \/ \E n \in ShareMaxAttempts : ShareWithMaxAttempts(r, t, n)
       \/ ShareWithMaxAttemptsIndefinite(r, t)
       \/ \E c \in ShareCoefficients : ShareWithBackOffCoefficient(r, t, c)
       \/ \E d \in ShareIntervals : ShareWithInterval(r, t, d)
       \/ \E n \in ShareMaxAttempts : FixedDelay_ShareWithMaxAttempts(r, t, n)
       \/ FixedDelay_ShareWithMaxAttemptsIndefinite(r, t)
  \/ \E r \in Holders : ShareBuild(r)

ShareSpec == Init /\ [][ShareNext]_vars

(* ------------------------------- claims ------------------------------- *)

Started == pc \notin {"building", "idle"}
Done == pc \in {"succeeded", "cancelled", "exhausted"}
Bounded == getMaxAttempts(policy) > 0
\* No invocation so far returned a nil error.
AllFailed == lastOut.err # "nil"
Exhausted == pc = "exhausted"

\* The counts of C1: at most N invocations, and exactly N once the run is over.
C1_Counts ==
  (Started /\ Bounded /\ AllFailed /\ ~ctxDone) =>
    /\ calls <= getMaxAttempts(policy)
    /\ Done => calls = getMaxAttempts(policy)
    /\ Done => Len(tryTimes) = getMaxAttempts(policy)

\* C1: under a policy with bounded maxAttempts = N, a run in which every
\* attempt fails and the signal does not fire invokes the operation at most N
\* times, is over only with exactly N invocations, and does end with them.
C1_ExactlyNInvocations ==
  /\ []C1_Counts
  /\ ([](AllFailed /\ ~ctxDone) /\ <>(Started /\ Bounded))
       => <>(Done /\ calls = getMaxAttempts(policy))

\* A run under maxAttempts = MaxCalls that failed MaxCalls times, uncancelled.
C1_Witness ==
  /\ Exhausted /\ ~ctxDone /\ Bounded
  /\ calls = MaxCalls /\ getMaxAttempts(policy) = MaxCalls

\* The error of the most recent invocation; nil when there was none.
LastErr == IF calls = 0 THEN "nil" ELSE lastOut.err

\* C2: a run that ends because the bounded attempt count was reached returns
\* the value and the error of the last invocation, the error being the
\* operation's own error (not a DeadlineExceededError), after maxAttempts
\* invocations.
C2_ExhaustedReturnsLast ==
  Exhausted =>
    /\ Bounded
    /\ calls = getMaxAttempts(policy)
    /\ lastOut.err \in OpErrors
    /\ ret.val = lastOut.val
    /\ ret.err = OpError(lastOut.err)
    /\ ret.err.type # "DeadlineExceededError"

\* The last attempt failed with another value and error than the one before.
C2_Witness ==
  /\ Exhausted
  /\ calls >= 2
  /\ prevOut.err \in OpErrors
  /\ prevOut.err # lastOut.err
  /\ prevOut.val # lastOut.val
  /\ ret.err = OpError(lastOut.err)

\* C3: the first invocation that returns no error ends the run at once, with
\* the value of that invocation and a nil error, after as many invocations as
\* were made and one sleep fewer (and within maxAttempts when bounded).
C3_SuccessReturnsValue ==
  /\ lastOut.err = "nil" => pc = "succeeded"
  /\ pc = "succeeded" =>
       /\ lastOut.err = "nil"
       /\ ret = [val |-> lastOut.val, err |-> NilError]
       /\ Len(tryTimes) = calls
       /\ Len(sleeps) = calls - 1
       /\ Bounded => calls <= getMaxAttempts(policy)

\* The third invocation succeeds with a value the failed second one did not
\* return.
C3_Witness ==
  /\ pc = "succeeded"
  /\ calls = 3
  /\ Len(sleeps) = 2
  /\ prevOut.err \in OpErrors
  /\ prevOut.val = 0
  /\ ret.val = 1

\* What a cancelled run returned: a DeadlineExceededError with the value and
\* the error of the most recent invocation, beside that same value.
C4_CancelledState ==
  pc = "cancelled" =>
    /\ ctxDone
    /\ ret.err = DeadlineExceededError(lastOut.val, LastErr)
    /\ ret.val = ret.err.Result

\* C4: a poll that finds the signal fired ends the run at that poll (no
\* further invocation, no further sleep) with a DeadlineExceededError whose
\* Result and Err are the value and the error of the most recent invocation,
\* the value returned beside it being that Result.
C4_PollObservesSignal ==
  /\ []C4_CancelledState
  /\ [][(pc = "poll" /\ ctxDone /\ pc' # pc) =>
         (pc' = "cancelled" /\ calls' = calls /\ sleeps' = sleeps)]_vars

\* Cancelled after two failed attempts that returned different values and
\* errors.
C4_Witness ==
  /\ pc = "cancelled"
  /\ calls = 2
  /\ prevOut = [val |-> 0, err |-> "E1"]
  /\ lastOut = [val |-> 1, err |-> "E2"]
  /\ ret.err.Result = 1
  /\ ret.err.Err = "E2"

\* C5: once the signal has fired before the run ended, a failing outcome of
\* the run is a DeadlineExceededError, never the plain error of the operation.
\* (CtxCancel fires only before the return, so ctxDone in a final state says
\* that the signal fired during the run.)
C5_FiredSignalGivesDeadlineError ==
  (Done /\ ctxDone /\ ret.err.type # "nil") =>
    ret.err.type = "DeadlineExceededError"

IsBackOff == policy.kind = "BackOff"
IsFixedDelay == policy.kind = "FixedDelay"
UnlimitedInterval == getMaxInterval(policy) = unlimitedMaxInterval
Min(a, b) == IF a <= b THEN a ELSE b

\* The coefficient is a whole number c >= 1.
IntegerCoefficient ==
  /\ getBackOffCoefficient(policy) >= CoefScale
  /\ getBackOffCoefficient(policy) % CoefScale = 0

\* initialInterval * c^(k-1), for a whole coefficient c.
Geometric(k) ==
  getInitialInterval(policy) * (getBackOffCoefficient(policy) \div CoefScale)^(k - 1)

\* The attempt offsets of the test of the exponential policy, in ticks of 100ms.
BackOffTestOffsets == <<0, 1, 3, 7, 15>>

\* C6: under a backoff policy with a whole coefficient c >= 1 and
\* initialInterval <= maxInterval (or an unlimited maxInterval), the k-th sleep
\* is min(initialInterval * c^(k-1), maxInterval), without the min when
\* unlimited; with initialInterval 100ms, c = 2 and maxInterval 1s the attempts
\* start at 0, 100, 300, 700, 1500 ms.
C6_GeometricSleeps ==
  (IsBackOff /\ IntegerCoefficient
     /\ (UnlimitedInterval \/ getInitialInterval(policy) <= getMaxInterval(policy))) =>
    /\ \A k \in 1..Len(sleeps) :
         sleeps[k] = IF UnlimitedInterval THEN Geometric(k)
                     ELSE Min(Geometric(k), getMaxInterval(policy))
    /\ (getInitialInterval(policy) = 1 /\ getMaxInterval(policy) = Second
          /\ getBackOffCoefficient(policy) = 2 * CoefScale) =>
         \A n \in 1..Min(Len(tryTimes), Len(BackOffTestOffsets)) :
           tryTimes[n] = BackOffTestOffsets[n]

\* C6 restricted to the runs in which no conversion left the range of a
\* duration (arch is set by the first that does): there the formula holds.
C6_GeometricSleepsInRange == arch = "unobserved" => C6_GeometricSleeps

\* C7: under a fixed-delay policy every sleep lasts the policy's interval, and
\* the n-th attempt starts (n-1) intervals after the first.
C7_FixedDelayConstant ==
  IsFixedDelay =>
    /\ \A k \in 1..Len(sleeps) : sleeps[k] = policy.initialInterval
    /\ \A n \in 1..Len(tryTimes) : tryTimes[n] = (n - 1) * policy.initialInterval

\* Five attempts 100ms apart.
C7_Witness ==
  /\ IsFixedDelay
  /\ policy.initialInterval = 1
  /\ tryTimes = <<0, 1, 2, 3, 4>>
  /\ sleeps = <<1, 1, 1, 1>>

\* C8: under a backoff policy with a bounded maxInterval no sleep is longer
\* than maxInterval, whatever initialInterval, coefficient and attempt count.
C8_NoSleepAboveMaxInterval ==
  (IsBackOff /\ ~UnlimitedInterval) =>
    \A k \in 1..Len(sleeps) : sleeps[k] <= getMaxInterval(policy)

\* The policies of C9: a bounded maxInterval, initialInterval <= maxInterval
\* and a coefficient >= 1.
C9_Precondition ==
  /\ IsBackOff
  /\ ~UnlimitedInterval
  /\ getInitialInterval(policy) <= getMaxInterval(policy)
  /\ getBackOffCoefficient(policy) >= CoefScale

\* No sleep, and no interval kept for the next sleep, is above maxInterval.
C9_Within ==
  C9_Precondition =>
    /\ \A k \in 1..Len(sleeps) : sleeps[k] <= getMaxInterval(policy)
    /\ Started => nextIntervalVar <= getMaxInterval(policy)

\* C9: under a backoff policy with a bounded maxInterval, initialInterval <=
\* maxInterval and a coefficient >= 1, no sleep and no interval kept for the
\* next sleep is longer than maxInterval, and a freshly computed next interval
\* above maxInterval is replaced by maxInterval.
C9_ClampToMaxInterval ==
  /\ []C9_Within
  /\ [][(C9_Precondition /\ pc = "backoff" /\ pc' = "sleep"
           /\ nextIntervalVar # getMaxInterval(policy)
           /\ nextInterval(nextIntervalVar, getBackOffCoefficient(policy), arch')
                > getMaxInterval(policy))
          => nextIntervalVar' = getMaxInterval(policy)]_vars

\* initialInterval 100ms, maxInterval 1s, coefficient 2.0: the fifth sleep,
\* computed as 1600ms, lasts 1s.
C9_Witness ==
  /\ C9_Precondition
  /\ getInitialInterval(policy) = 1
  /\ getMaxInterval(policy) = Second
  /\ getBackOffCoefficient(policy) = 2 * CoefScale
  /\ sleeps = <<1, 2, 4, 8, Second>>

\* C10: under a backoff policy with an unlimited maxInterval and a coefficient
\* c > 1, each sleep is the sleep before it times c, and longer than it.
C10_UnlimitedGrowth ==
  (IsBackOff /\ UnlimitedInterval /\ getBackOffCoefficient(policy) > CoefScale) =>
    \A k \in 2..Len(sleeps) :
      /\ sleeps[k] * CoefScale = sleeps[k - 1] * getBackOffCoefficient(policy)
      /\ sleeps[k] > sleeps[k - 1]

\* C11: under any built backoff policy the delay between retries is
\* increasing: each sleep is at least as long as the sleep before it, whatever
\* initialInterval, maxInterval and coefficient the builder accepted.
C11_SleepsNeverDecrease ==
  IsBackOff => \A k \in 2..Len(sleeps) : sleeps[k] >= sleeps[k - 1]

(* ----------------------- claims about the builder --------------------- *)

\* Build has returned a policy.
Built == policy.kind # "none"

\* What C12 expects of maxAttempts for an override o.
ExpectedMaxAttempts(o) ==
  IF o.how = "none" \/ o.v = 0 THEN 3
  ELSE IF o.v < 0 THEN -1
  ELSE o.v

\* C12: for both builders, Build gives maxAttempts -1 for every negative
\* override, 3 for the override 0 and for no override, and n for an override
\* n > 0.
C12_MaxAttemptsMapping ==
  (Built /\ ovr.maxAttempts.how # "sentinel") =>
    MaxAttempts(policy) = ExpectedMaxAttempts(ovr.maxAttempts)

\* WithMaxAttempts(-5) built as -1 by the backoff builder.
C12_Witness ==
  /\ Built
  /\ IsBackOff
  /\ ovr.maxAttempts = Given(-5)
  /\ MaxAttempts(policy) = -1

\* What C13 expects of maxInterval for an override o.
ExpectedMaxInterval(o) ==
  IF o.how = "none" \/ o.v = 0 THEN 30 * Second
  ELSE IF o.v < 0 THEN -1
  ELSE o.v

\* C13: the backoff builder gives maxInterval -1 for every negative
\* override, 30s for the override 0 and for no override, and d for an
\* override d > 0.
C13_MaxIntervalMapping ==
  (Built /\ IsBackOff /\ ovr.maxInterval.how # "sentinel") =>
    MaxInterval(policy) = ExpectedMaxInterval(ovr.maxInterval)

\* WithMaxInterval(0) built as 30s.
C13_Witness ==
  /\ Built
  /\ IsBackOff
  /\ ovr.maxInterval = Given(0)
  /\ MaxInterval(policy) = 30 * Second

\* What C14 expects of an interval for an override o.
ExpectedInterval(o) ==
  IF o.how = "none" \/ o.v <= 0 THEN Second ELSE o.v

\* C14: the backoff initialInterval and the fixed-delay interval are 1s for
\* every override d <= 0 and for no override, and d for an override d > 0; a
\* negative value never gives a sentinel.
C14_IntervalMapping ==
  /\ (Built /\ IsBackOff) =>
       InitialInterval(policy) = ExpectedInterval(ovr.initialInterval)
  /\ (Built /\ IsFixedDelay) =>
       Interval(policy) = ExpectedInterval(ovr.initialInterval)

\* WithInitialInterval(-1) built as 1s.
C14_Witness ==
  /\ Built
  /\ IsBackOff
  /\ ovr.initialInterval = Given(-1)
  /\ InitialInterval(policy) = Second

\* What C15 expects of the coefficient for an override o.
ExpectedCoefficient(o) ==
  IF o.how = "none" \/ FloatLeq(o.v, 0) THEN 2 * CoefScale ELSE o.v

\* C15: the backoff coefficient is 2.0 for every override c <= 0 and for no
\* override, and c unchanged for every override c > 0, those between 0 and 1
\* included.
C15_CoefficientMapping ==
  (Built /\ IsBackOff
     /\ (ovr.backOffCoefficient.how = "none"
           \/ FloatLeq(ovr.backOffCoefficient.v, 0)
           \/ FloatLeq(0, ovr.backOffCoefficient.v))) =>
    BackOffCoefficient(policy) = ExpectedCoefficient(ovr.backOffCoefficient)

\* WithBackOffCoefficient(0.5) built as 0.5.
C15_Witness ==
  /\ Built
  /\ IsBackOff
  /\ ovr.backOffCoefficient = Given(1)
  /\ BackOffCoefficient(policy) = 1
  /\ 1 < CoefScale

\* C16: a built fixed-delay policy answers the normalized view with
\* getMaxInterval = getInitialInterval = Interval, coefficient 1.0 and
\* getMaxAttempts = MaxAttempts; a built backoff policy answers each
\* normalized getter with the value of the public getter.
C16_NormalizedView ==
  /\ (Built /\ IsFixedDelay) =>
       /\ getMaxInterval(policy) = getInitialInterval(policy)
       /\ getInitialInterval(policy) = Interval(policy)
       /\ getBackOffCoefficient(policy) = CoefScale
       /\ getMaxAttempts(policy) = MaxAttempts(policy)
  /\ (Built /\ IsBackOff) =>
       /\ getInitialInterval(policy) = InitialInterval(policy)
       /\ getMaxInterval(policy) = MaxInterval(policy)
       /\ getMaxAttempts(policy) = MaxAttempts(policy)
       /\ getBackOffCoefficient(policy) = BackOffCoefficient(policy)

\* A fixed-delay policy of 2s: the normalized maxInterval is 2s.
C16_Witness ==
  /\ Built
  /\ IsFixedDelay
  /\ ovr.initialInterval = Given(2 * Second)
  /\ Interval(policy) = 2 * Second
  /\ getMaxInterval(policy) = 2 * Second

\* C17: Build never fails, whatever the overrides, and the policy it returns
\* has initialInterval > 0, coefficient > 0, maxAttempts > 0 or -1 and
\* maxInterval > 0 or -1.
C17_BuiltRanges ==
  /\ (pc = "building" /\ builder.kind # "none") => ENABLED Build
  /\ Built =>
       /\ getInitialInterval(policy) > 0
       /\ FloatLeq(0, getBackOffCoefficient(policy))
       /\ getBackOffCoefficient(policy) # 0
       /\ getMaxAttempts(policy) > 0 \/ getMaxAttempts(policy) = -1
       /\ getMaxInterval(policy) > 0 \/ getMaxInterval(policy) = -1

\* The same, of the policies built from coefficients that are numbers.
C17_BuiltRangesOfNumbers ==
  (ovr.backOffCoefficient.v # NaN) => C17_BuiltRanges

\* C18: Build leaves the builder values as they were, so that an override
\* after it starts from the state accumulated before it, and a second Build
\* of the same builder value gives a policy equal field by field to the
\* first.
C18_BuildIdempotent ==
  [][(lastOp'.call = "Build" /\ ops' # ops) =>
       /\ builder' = builder
       /\ other' = other
       /\ lastOp'.again => policy' = policy]_vars

\* A builder with an override, built twice in a row.
C18_Witness ==
  /\ lastOp.call = "Build"
  /\ lastOp.again
  /\ Held(lastOp.recv).maxAttempts = 2
  /\ MaxAttempts(policy) = 2

BuilderFields ==
  {"initialInterval", "maxInterval", "maxAttempts", "backOffCoefficient"}

\* C19: a With* call returns a builder of the receiver's type with the named
\* field set and every other field equal to the receiver's; it leaves the
\* receiver, the other builder value and a policy built before as they were.
C19_WithChangesNamedFieldOnly ==
  [][(lastOp'.call = "With" /\ ops' # ops) =>
       LET r == lastOp'.recv
           t == lastOp'.target
           recv == Held(r)
           result == IF t = "builder" THEN builder' ELSE other'
       IN  /\ result.kind = recv.kind
           /\ result[lastOp'.field] = lastOp'.v
           /\ \A f \in BuilderFields \ {lastOp'.field} : result[f] = recv[f]
           /\ (t # "builder") => builder' = builder
           /\ (t # "other") => other' = other
           /\ policy' = policy]_vars

\* other was derived from builder, builder was overridden afterwards, and a
\* policy built before differs from what either would build now.
C19_Witness ==
  /\ lastOp.call = "With"
  /\ other.kind = "BackOff"
  /\ other # builder
  /\ Built
  /\ policy # BuildPolicy(builder)
  /\ policy # BuildPolicy(other)

(* ---------------------------- claims about Run ------------------------ *)

\* What Run has returned when the run is over: nil exactly on success, the
\* last error of the operation as it is on exhaustion, and on cancellation a
\* DeadlineExceededError with a nil Result and the last error.
C20_OutcomeOfRun ==
  Done =>
    /\ RunResult = NilError <=> pc = "succeeded"
    /\ pc = "succeeded" => ret.val = 0
    /\ pc = "exhausted" => RunResult = OpError(LastErr)
    /\ pc = "cancelled" => RunResult = DeadlineExceededError(0, LastErr)

\* C20: every run of Run is a run of Supply on an operation that returns a
\* placeholder value with the same errors (the same invocations, sleeps and
\* polls of the context), and Run returns the error of that Supply alone.
C20_RunAsSupply == Spec /\ []C20_OutcomeOfRun

\* Run cancelled after two failed invocations and two sleeps.
C20_Witness ==
  /\ pc = "cancelled"
  /\ calls = 2
  /\ Len(sleeps) = 2
  /\ lastOut = [val |-> 0, err |-> "E2"]
  /\ RunResult = DeadlineExceededError(0, "E2")

(* ------------------ claims about attempts and cancellation ------------ *)

Indefinite == getMaxAttempts(policy) = undefinedMaxAttempts

\* Under an indefinite policy the counter stays 0 and the run does not end
\* with the return after the loop.
C21_CounterStaysZero ==
  (Started /\ Indefinite) => (i = 0 /\ pc # "exhausted")

\* C21: under a policy whose maxAttempts is the indefinite sentinel the
\* attempt counter stays 0, the run ends only as a success or with a
\* DeadlineExceededError, and while every attempt fails and the signal does
\* not fire the operation is invoked again and again (up to the bound on
\* invocations of this model).
C21_IndefiniteAttempts ==
  /\ []C21_CounterStaysZero
  /\ [](Done /\ Indefinite =>
         ret.err.type \in {"nil", "DeadlineExceededError"})
  /\ ([](AllFailed /\ ~ctxDone) /\ <>(Started /\ Indefinite))
       => <>(pc = "invoke" /\ calls = MaxCalls /\ Len(sleeps) = MaxCalls)

\* MaxCalls failed attempts under an indefinite policy, the counter still 0
\* and the next invocation due.
C21_Witness ==
  /\ Indefinite
  /\ ~ctxDone
  /\ AllFailed
  /\ pc = "invoke"
  /\ calls = MaxCalls
  /\ i = 0

\* The signal fired after the first poll of the run had found it not fired.
FiredAfterFirstPoll ==
  /\ ctxDone
  /\ firedAt.pc # "idle"
  /\ ~(firedAt.pc = "poll" /\ firedAt.calls = 0)

\* The signal fired while the model still has room for the invocation that
\* the poll before it let through.
FiredWithinBound ==
  ctxDone /\ ~(firedAt.pc = "invoke" /\ firedAt.calls = MaxCalls)

C22_CancelledResult ==
  (Indefinite /\ pc = "cancelled") =>
    /\ ret.err.type = "DeadlineExceededError"
    /\ FiredAfterFirstPoll => calls >= 1

\* C22: under an indefinite policy and an operation that always fails, once
\* the signal has fired the run comes to an end, with a DeadlineExceededError,
\* the operation having been invoked at least once when the signal fired
\* after the first poll.
C22_CancelEndsIndefiniteRun ==
  /\ []C22_CancelledResult
  /\ (Indefinite /\ Started /\ FiredWithinBound) ~>
       (\/ pc = "cancelled" /\ ret.err.type = "DeadlineExceededError"
        \/ ~AllFailed)

\* An indefinite run cancelled during its third sleep.
C22_Witness ==
  /\ Indefinite
  /\ pc = "cancelled"
  /\ AllFailed
  /\ firedAt = [pc |-> "sleep", calls |-> 3]
  /\ calls = 3
  /\ ret.err.type = "DeadlineExceededError"

\* Under a bounded policy the invocations and the sleeps number at most
\* maxAttempts.
C23_AtMostN ==
  (Started /\ Bounded) =>
    /\ calls <= getMaxAttempts(policy)
    /\ Len(sleeps) <= getMaxAttempts(policy)

\* C23: under a bounded maxAttempts = N the run always comes to an end, with
\* at most N invocations and at most N sleeps, whatever the operation returns
\* and whenever the signal fires.
C23_BoundedRunTerminates ==
  /\ []C23_AtMostN
  /\ (Started /\ Bounded) ~> Done

\* A run under maxAttempts = 3 with three sleeps, the signal fired during the
\* last of them.
C23_Witness ==
  /\ Done
  /\ getMaxAttempts(policy) = 3
  /\ calls = 3
  /\ Len(sleeps) = 3
  /\ firedAt = [pc |-> "sleep", calls |-> 3]

\* The time the sleeps of s take on the sleeper's clock.
RECURSIVE Elapsed(_)
Elapsed(s) ==
  IF s = <<>> THEN 0 ELSE Slept(s[1]) + Elapsed(Tail(s))

\* C25: cancellation is not preemptive.  The signal is observed at the poll
\* that opens an iteration and nowhere else; when it fired during a call of
\* the operation that failed, the run computes the next interval and sleeps
\* the whole current interval before the poll that observes it.
C25_NotPreemptive ==
  /\ [][(pc' = "cancelled" /\ pc # "cancelled") => pc = "poll"]_vars
  /\ [][(pc = "backoff" /\ pc' # "backoff") =>
          /\ pc' = "sleep"
          /\ sleeps' = Append(sleeps, nextIntervalVar)
          /\ currInterval' = nextIntervalVar]_vars
  /\ [][(pc = "sleep" /\ pc' # "sleep") =>
          clock' = clock + Slept(currInterval)]_vars
  /\ []((pc = "cancelled" /\ firedAt.pc = "supply") =>
          /\ calls = firedAt.calls
          /\ Len(sleeps) = firedAt.calls
          /\ clock = Elapsed(sleeps))

\* The signal fired during the second call, which failed; the run slept and
\* then observed it.
C25_Witness ==
  /\ pc = "cancelled"
  /\ firedAt = [pc |-> "supply", calls |-> 2]
  /\ Len(sleeps) = 2
  /\ sleeps[2] > 0
  /\ clock = Elapsed(sleeps)

\* The kind of error each of the three returns gives.
OutcomeKind ==
  CASE pc = "succeeded" -> "nil"
    [] pc = "cancelled" -> "DeadlineExceededError"
    [] pc = "exhausted" -> "op"
    [] OTHER -> "none"

\* C26: a run ends in exactly one of three outcomes: success (nil error),
\* cancellation (DeadlineExceededError) or exhaustion (the plain last error);
\* once it has returned, in particular once a poll has observed the signal,
\* the operation is not invoked and the sleeper not called again.
C26_OutcomesAreTerminal ==
  /\ [](ret # NoReturn <=> Done)
  /\ [](ret.err.type = OutcomeKind)
  /\ [][ret # NoReturn =>
          /\ calls' = calls
          /\ sleeps' = sleeps
          /\ clock' = clock
          /\ ret' = ret
          /\ pc' = pc]_vars

\* A run whose second poll observed the signal; the signal stays fired.
C26_Witness ==
  /\ pc = "cancelled"
  /\ ctxDone
  /\ calls = 1
  /\ Len(sleeps) = 1
  /\ ret.err = DeadlineExceededError(lastOut.val, lastOut.err)

\* C27: when the signal has fired before Supply is called, the operation is
\* not invoked, the sleeper not called, and Supply returns the zero value and
\* a DeadlineExceededError with the zero value as Result and a nil Err; a
\* DeadlineExceededError has a nil Err only when there was no invocation.
C27_FiredBeforeCall ==
  /\ (firedAt.pc = "idle" /\ Started) =>
       /\ pc \in {"poll", "cancelled"}
       /\ calls = 0
       /\ sleeps = <<>>
  /\ (firedAt.pc = "idle" /\ Done) =>
       /\ ret.val = 0
       /\ ret.err = DeadlineExceededError(0, "nil")
  /\ (pc = "cancelled" /\ ret.err.Err = "nil") => calls = 0

\* Supply returned at its first poll, the signal having fired before.
C27_Witness ==
  /\ firedAt.pc = "idle"
  /\ pc = "cancelled"
  /\ calls = 0
  /\ ret.err = DeadlineExceededError(0, "nil")

\* C28: a run goes poll, invoke and, after a failure, sleep, again and again.
\* An invocation follows at once a poll that found the signal not fired; every
\* invocation but the first has exactly one sleep between it and the one
\* before; the first sleep lasts initialInterval and each later one the
\* interval computed in the iteration before.
C28_PollInvokeSleep ==
  /\ [][(pc' = "invoke" /\ pc # "invoke") => (pc = "poll" /\ ~ctxDone)]_vars
  /\ [][calls' # calls =>
          (pc = "invoke" /\ pc' = "supply" /\ calls' = calls + 1)]_vars
  /\ [](pc = "supply" => Len(sleeps) = calls - 1)
  /\ [](Len(sleeps) <= calls /\ calls <= Len(sleeps) + 1)
  /\ [](Len(sleeps) >= 1 => sleeps[1] = getInitialInterval(policy))
  /\ [][sleeps' # sleeps =>
          /\ pc = "backoff"
          /\ sleeps' = Append(sleeps, nextIntervalVar)
          /\ (Len(sleeps) >= 1 /\ arch' = "unobserved") =>
               nextIntervalVar =
                 calcNextInterval(sleeps[Len(sleeps)], getMaxInterval(policy),
                                  getBackOffCoefficient(policy), arch')]_vars

\* The third invocation in flight after sleeps of 100ms and 200ms.
C28_Witness ==
  /\ pc = "supply"
  /\ calls = 3
  /\ getInitialInterval(policy) = 1
  /\ sleeps = <<1, 2>>

BoundedInterval == Built /\ getMaxInterval(policy) # unlimitedMaxInterval

\* C29: under a bounded maxInterval, once the interval is maxInterval every
\* later interval of the run is maxInterval, whatever the coefficient.
C29_PinnedAtMaxInterval ==
  /\ [][(Started /\ BoundedInterval
           /\ nextIntervalVar = getMaxInterval(policy))
          => nextIntervalVar' = nextIntervalVar]_vars
  /\ [](BoundedInterval =>
          \A j, k \in 1..Len(sleeps) :
            (j < k /\ sleeps[j] = getMaxInterval(policy))
              => sleeps[k] = getMaxInterval(policy))

\* Coefficient 0.5 and initialInterval = maxInterval = 100ms: three sleeps of
\* 100ms.
C29_Witness ==
  /\ IsBackOff
  /\ getBackOffCoefficient(policy) = 1
  /\ getMaxInterval(policy) = 1
  /\ sleeps = <<1, 1, 1>>

\* C30: the sleeper is called once after every failed attempt, the last
\* permitted one included: a run that returns the plain last error after N
\* invocations has slept N times, the N-th interval elapsed.
C30_SleepAfterEveryFailure ==
  /\ (pc \in {"sleep", "poll", "invoke", "exhausted", "cancelled"}) =>
       Len(sleeps) = calls
  /\ (pc \in {"supply", "backoff", "succeeded"}) => Len(sleeps) = calls - 1
  /\ pc = "exhausted" =>
       /\ calls = getMaxAttempts(policy)
       /\ Len(sleeps) = getMaxAttempts(policy)
       /\ clock = Elapsed(sleeps)
       /\ clock = tryTimes[calls] + Slept(sleeps[calls])

\* Three failed attempts a second apart under maxAttempts = 3: the plain
\* error comes three seconds after the first attempt.
C30_Witness ==
  /\ pc = "exhausted"
  /\ calls = 3
  /\ sleeps = <<Second, Second, Second>>
  /\ tryTimes = <<0, Second, 2 * Second>>
  /\ clock = 3 * Second

(* --------------------- claims about concurrent calls ------------------ *)

\* The k-th sleep of a run alone under the policy p, no conversion leaving
\* the integer range.
RECURSIVE SoloInterval(_, _)
SoloInterval(p, k) ==
  IF k = 1 THEN getInitialInterval(p)
  ELSE calcNextInterval(SoloInterval(p, k - 1), getMaxInterval(p),
                        getBackOffCoefficient(p), "unobserved")

\* The call r has the sleeps, the number of attempts and the result that the
\* policy, the outcomes of its own operation and its own signal give a call
\* run alone.
AsAlone(r) ==
  /\ \A k \in 1..Len(r.sleeps) : r.sleeps[k] = SoloInterval(policy, k)
  /\ r.calls <= getMaxAttempts(policy)
  /\ Len(r.tryTimes) = r.calls
  /\ r.calls - 1 <= Len(r.sleeps) /\ Len(r.sleeps) <= r.calls
  /\ r.pc = "succeeded" => r.ret = SuccessReturn(r.lastOut.val)
  /\ r.pc = "exhausted" =>
       /\ r.ret = ExhaustedReturn(r.lastOut.val, r.lastOut.err)
       /\ r.calls = getMaxAttempts(policy)
  /\ r.pc = "cancelled" =>
       /\ r.ctxDone
       /\ r.ret = IF r.calls = 0 THEN DeadlineReturn(0, "nil")
                  ELSE DeadlineReturn(r.lastOut.val, r.lastOut.err)

\* C24: two calls of Supply that run concurrently with one policy value are
\* independent.  The policy is never modified; a step of one call leaves the
\* locals of the other as they are; under every interleaving each call has
\* the attempts, sleeps and result of a call run alone.
C24_ConcurrentCallsIndependent ==
  /\ [][Built => policy' = policy]_vars
  /\ [][inv2' # inv2 => (inv2' = Invocation /\ Invocation' = inv2)]_vars
  /\ [](Built => (AsAlone(Invocation) /\ AsAlone(inv2)))

\* One call exhausted its two attempts while the other, started in between,
\* was cancelled after one.
C24_Witness ==
  /\ pc = "exhausted"
  /\ calls = 2
  /\ sleeps = <<Second, 2 * Second>>
  /\ ~ctxDone
  /\ inv2.pc = "cancelled"
  /\ inv2.calls = 1
  /\ inv2.sleeps = <<Second>>
  /\ inv2.tryTimes = <<0>>

(* ------------------- claims about success and the signal -------------- *)

\* C31: an attempt that returns a nil error ends the run as a success with a
\* nil error, also when the signal fired while the attempt was in flight; a
\* success never becomes a DeadlineExceededError.
C31_SuccessWins ==
  /\ [][(pc = "supply" /\ pc' # "supply" /\ lastOut'.err = "nil") =>
          (pc' = "succeeded" /\ ret' = SuccessReturn(lastOut'.val))]_vars
  /\ []((calls > 0 /\ pc # "supply" /\ lastOut.err = "nil") =>
          (pc = "succeeded" /\ ret.err = NilError /\ ret.val = lastOut.val))

\* The signal fired during the second attempt, which returned a value and
\* no error.
C31_Witness ==
  /\ pc = "succeeded"
  /\ firedAt = [pc |-> "supply", calls |-> 2]
  /\ lastOut = [val |-> 1, err |-> "nil"]
  /\ ret = [val |-> 1, err |-> NilError]

\* The invocations and the sleeps begun when the signal fired.
CallsAtFire == firedAt.calls
SleepsAtFire ==
  IF firedAt.pc \in {"supply", "backoff"} THEN firedAt.calls - 1
  ELSE firedAt.calls

\* C32: whenever the signal fires, between a poll and the call after it
\* included, at most one invocation of the operation and at most one sleep
\* begin after it.
C32_AtMostOneAfterSignal ==
  ctxDone =>
    /\ calls <= CallsAtFire + 1
    /\ Len(sleeps) <= SleepsAtFire + 1
    /\ firedAt.pc # "invoke" => calls = CallsAtFire
    /\ firedAt.pc \in {"idle", "poll", "sleep"} => Len(sleeps) = SleepsAtFire

\* The signal fired between the second poll and the second call: that call
\* and the sleep after it took place, and nothing more.
C32_Witness ==
  /\ pc = "cancelled"
  /\ firedAt = [pc |-> "invoke", calls |-> 1]
  /\ calls = 2
  /\ Len(sleeps) = 2

(* ---------------- policies that Build did not produce ----------------- *)

\* BackOffPolicy{} and FixedDelayPolicy{}: the exported struct types have a
\* zero value, with every field 0, and implement Policy like a built one.
ZeroBackOffPolicy ==
  [kind |-> "BackOff", initialInterval |-> 0, maxInterval |-> 0,
   maxAttempts |-> 0, backOffCoefficient |-> 0]

ZeroFixedDelayPolicy ==
  [kind |-> "FixedDelay", initialInterval |-> 0, maxInterval |-> 0,
   maxAttempts |-> 0, backOffCoefficient |-> 0]

\* The caller declares a policy value instead of building one.
UseZeroValue(p) ==
  /\ pc = "building"
  /\ builder = NoBuilder
  /\ policy' = p
  /\ pc' = "idle"
  /\ UNCHANGED <<builder, arch, svars, ctxDone, firedAt, hvars, cvars>>

AnyPolicyNext ==
  \/ Next
  \/ \E p \in {ZeroBackOffPolicy, ZeroFixedDelayPolicy} : UseZeroValue(p)

\* Supply under every policy value a caller can pass: built or zero value.
AnyPolicySpec == Init /\ [][AnyPolicyNext]_vars

AnyPolicyFairSpec == AnyPolicySpec /\ WF_vars(SupplyStep)

\* Under maxAttempts = 0 the counter is never incremented, so the loop's
\* condition i == 0 holds at every test and the return after the loop is
\* never reached.
C33_ZeroNeverExhausts ==
  (Started /\ getMaxAttempts(policy) = 0) => (i = 0 /\ pc # "exhausted")

\* The invocations a run under maxAttempts >= 0 can make if it is to end on
\* its own: the loop's condition admits the first attempt whatever
\* maxAttempts is, and a counter that counts attempts admits maxAttempts.
AttemptsAllowed(p) ==
  IF getMaxAttempts(p) > 1 THEN getMaxAttempts(p) ELSE 1

\* C33: under every policy whose maxAttempts is not negative, the zero
\* values BackOffPolicy{} and FixedDelayPolicy{} included, the invocations of
\* an operation that always fails are bounded by the policy and a started
\* run comes to an end without the signal.
C33_NonNegativeTerminates ==
  /\ []((Started /\ getMaxAttempts(policy) >= 0) =>
          calls <= AttemptsAllowed(policy))
  /\ (Started /\ getMaxAttempts(policy) >= 0) ~> (Done \/ ctxDone)

(* ------------------ claims about chains of overrides ------------------ *)

\* The override o asks for the sentinel: by the call that names it or by a
\* negative value.
Negative(o) == o.how = "sentinel" \/ (o.how = "value" /\ o.v < 0)

\* The builder value b with maxAttempts overridden by n, by the call of b's
\* builder type.
OverriddenMaxAttempts(b, n) ==
  IF b.kind = "BackOff" THEN WithMaxAttempts(b, n)
  ELSE FixedDelay_WithMaxAttempts(b, n)

OverriddenMaxAttemptsIndefinite(b) ==
  IF b.kind = "BackOff" THEN WithMaxAttemptsIndefinite(b)
  ELSE FixedDelay_WithMaxAttemptsIndefinite(b)

\* C34: from every builder value, WithMaxAttemptsIndefinite() builds the
\* policy WithMaxAttempts(n) builds for every n < 0, and
\* WithMaxIntervalUnlimited() the policy WithMaxInterval(d) builds for every
\* d < 0; a built policy answers IsAttemptingIndefinitely() with true exactly
\* when the last maxAttempts override was negative or the indefinite call,
\* and HasUnlimitedMaxInterval() likewise for maxInterval.
C34_SentinelCalls ==
  /\ builder.kind # "none" =>
       \A n \in {m \in WideMaxAttempts : m < 0} :
         BuildPolicy(OverriddenMaxAttemptsIndefinite(builder)) =
           BuildPolicy(OverriddenMaxAttempts(builder, n))
  /\ builder.kind = "BackOff" =>
       \A d \in {m \in WideIntervals : m < 0} :
         BuildPolicy(WithMaxIntervalUnlimited(builder)) =
           BuildPolicy(WithMaxInterval(builder, d))
  /\ (Built /\ ovr.maxAttempts.how = "sentinel") =>
       \A n \in {m \in WideMaxAttempts : m < 0} :
         policy = BuildPolicy(OverriddenMaxAttempts(builder, n))
  /\ (Built /\ IsBackOff /\ ovr.maxInterval.how = "sentinel") =>
       \A d \in {m \in WideIntervals : m < 0} :
         policy = BuildPolicy(WithMaxInterval(builder, d))
  /\ Built =>
       (IsAttemptingIndefinitely(policy) <=> Negative(ovr.maxAttempts))
  /\ (Built /\ IsBackOff) =>
       (HasUnlimitedMaxInterval(policy) <=> Negative(ovr.maxInterval))

\* A backoff policy built after WithMaxIntervalUnlimited() and
\* WithMaxAttempts(-5): both questions answered with true, and the policy
\* that of WithMaxInterval(-5).
C34_Witness ==
  /\ Built
  /\ IsBackOff
  /\ ovr.maxInterval = AsSentinel
  /\ ovr.maxAttempts = Given(-5)
  /\ HasUnlimitedMaxInterval(policy)
  /\ IsAttemptingIndefinitely(policy)
  /\ policy = BuildPolicy(WithMaxInterval(builder, -5))

\* The fields a builder of the kind k has.
FieldsOf(k) ==
  IF k = "BackOff" THEN BuilderFields ELSE {"initialInterval", "maxAttempts"}

\* The overrides the calls for the field f can give.
OverridesOf(f) ==
  CASE f = "initialInterval" -> {Given(d) : d \in WideIntervals}
    [] f = "maxInterval" -> {Given(d) : d \in WideIntervals} \cup {AsSentinel}
    [] f = "maxAttempts" ->
         {Given(n) : n \in WideMaxAttempts} \cup {AsSentinel}
    [] f = "backOffCoefficient" -> {Given(c) : c \in WideCoefficients}

\* The builder value the call for the field f with the override o returns
\* on b.
Apply(b, f, o) ==
  CASE f = "initialInterval" ->
         IF b.kind = "BackOff" THEN WithInitialInterval(b, o.v)
         ELSE WithInterval(b, o.v)
    [] f = "maxInterval" ->
         IF o.how = "sentinel" THEN WithMaxIntervalUnlimited(b)
         ELSE WithMaxInterval(b, o.v)
    [] f = "maxAttempts" ->
         IF o.how = "sentinel" THEN OverriddenMaxAttemptsIndefinite(b)
         ELSE OverriddenMaxAttempts(b, o.v)
    [] f = "backOffCoefficient" -> WithBackOffCoefficient(b, o.v)

\* The builder a chain of the kind k starts from.
Fresh(k) == IF k = "BackOff" THEN BackOff ELSE FixedDelay

\* The policy of the kind k that the last overrides o determine.
PolicyOf(k, o) ==
  BuildPolicy(
    [kind |-> k,
     initialInterval |-> o.initialInterval.v,
     maxInterval |->
       IF o.maxInterval.how = "sentinel" THEN -1 ELSE o.maxInterval.v,
     maxAttempts |->
       IF o.maxAttempts.how = "sentinel" THEN -1 ELSE o.maxAttempts.v,
     backOffCoefficient |-> o.backOffCoefficient.v])

\* C35: after every chain of overrides the built policy is the one the last
\* override of each field determines.  From every builder value, two
\* overrides of different fields build the same policy in either order, the
\* later of two overrides of one field alone counts (a value after the
\* sentinel call and the reverse included), and an override with zero after
\* an earlier one builds the default of that field.  A builder value holds
\* the last value of each field only, so the chains that replace no override
\* reach every builder value.
C35_LastOverrideWins ==
  /\ Built => policy = PolicyOf(policy.kind, ovr)
  /\ (pc = "building" /\ builder.kind # "none" /\ ovr.replaced = {}) =>
       \A f \in FieldsOf(builder.kind), g \in FieldsOf(builder.kind) :
         \A x \in OverridesOf(f), y \in OverridesOf(g) :
           /\ f # g =>
                BuildPolicy(Apply(Apply(builder, f, x), g, y)) =
                  BuildPolicy(Apply(Apply(builder, g, y), f, x))
           /\ f = g =>
                BuildPolicy(Apply(Apply(builder, f, x), f, y)) =
                  BuildPolicy(Apply(builder, f, y))
           /\ BuildPolicy(Apply(Apply(builder, f, x), f, Given(0)))[f] =
                BuildPolicy(Fresh(builder.kind))[f]

\* A backoff policy built after WithMaxAttemptsIndefinite() was replaced by
\* WithMaxAttempts(4), WithMaxInterval by WithMaxIntervalUnlimited() and an
\* initialInterval by 0.
C35_Witness ==
  /\ Built
  /\ IsBackOff
  /\ ovr.replaced = {"initialInterval", "maxInterval", "maxAttempts"}
  /\ ovr.maxAttempts = Given(4)
  /\ ovr.maxInterval = AsSentinel
  /\ ovr.initialInterval = Given(0)
  /\ MaxAttempts(policy) = 4
  /\ MaxInterval(policy) = unlimitedMaxInterval
  /\ InitialInterval(policy) = defaultInitialInterval

(* ----------------- claims about the sign of the sleeps ----------------- *)

\* The sleeps after which the interval was never converted out of range.
C36_SleepsNotNegative ==
  arch = "unobserved" => \A k \in 1..Len(sleeps) : sleeps[k] >= 0

\* C36: under every built policy every duration passed to the sleeper is
\* strictly positive, after any number of failed attempts, the next interval
\* being the current one times the coefficient, truncated.
C36_SleepsPositive ==
  Built => \A k \in 1..Len(sleeps) : sleeps[k] > 0

====
